---- MODULE Spec2Model ----
(***************************************************************************)
(* Model of be/src/storage/rowset/json_column_iterator.cpp:                *)
(*   JsonFlatColumnIterator   (the Precomputed-Flat Reader)                *)
(*   JsonDynamicFlatIterator  (the Runtime-Flat Reader)                    *)
(* One reader object is alive at a time; the path-hit statistics are       *)
(* shared by all readers opened during the run.  The sub-iterators, the    *)
(* cast evaluator, JsonColumn/NullableColumn and the flattener are         *)
(* collaborators whose code is outside the file; they are modelled by the  *)
(* operators of the sections "collaborators".                              *)
(***************************************************************************)
EXTENDS Integers, Sequences, FiniteSets, TLC

\* ------------------------------------------------------------------ bounds
NumRows == 3
MaxReaders == 2

\* ------------------------------------------------------------------ values
Min(a, b) == IF a < b THEN a ELSE b

Null == <<"NULL", <<>>>>
IntV(n) == <<"INT", <<n>>>>
StrV(s) == <<"STRING", s>>

Rows == 0 .. (NumRows - 1)
Ordinals == 0 .. NumRows

RECURSIVE IntToString(_)
IntToString(n) ==
    IF n < 10 THEN <<48 + n>> ELSE IntToString(n \div 10) \o <<48 + (n % 10)>>

IsNumeric(s) == Len(s) > 0 /\ \A k \in 1 .. Len(s) : s[k] \in 48 .. 57

RECURSIVE StringToInt(_)
StringToInt(s) ==
    IF Len(s) = 0 THEN 0
    ELSE 10 * StringToInt(SubSeq(s, 1, Len(s) - 1)) + (s[Len(s)] - 48)

\* ------------------------------------------------- collaborators: statuses
OK == [ok |-> TRUE, code |-> "OK", from |-> 0]
Error(code, from) == [ok |-> FALSE, code |-> code, from |-> from]
\* what a failing sub-iterator and a failing cast evaluation report
IterError == "IOError"
CastError == "InvalidCast"
NoFail == [kind |-> "none", at |-> 0, code |-> "OK"]
ReadFail(at, code) == [kind |-> "read", at |-> at, code |-> code]
CastFail(at, code) == [kind |-> "cast", at |-> at, code |-> code]

\* identifiers of the sub-iterators in the call log: 0 is _null_iter,
\* i >= 1 is _flat_iters[i-1], JsonIt is _json_iter
NullIt == 0
JsonIt == -1
Call(it, op, rows) == [it |-> it, op |-> op, rows |-> rows]

\* -------------------------------------------- collaborators: stored data
\* what the segment stores for a flat path with a physical type, per row
PhysValue(p, type, r) ==
    IF type = "INT"
    THEN IF p = "$.a" THEN IntV(10 * (r + 1))
         ELSE IF r % 3 = 2 THEN Null ELSE IntV(r + 1)
    ELSE IF p = "$.a"
         THEN CASE r % 3 = 0 -> StrV(<<55>>)
                [] r % 3 = 1 -> StrV(<<120>>)
                [] OTHER -> Null
         ELSE StrV(IntToString(r + 1))

\* the null-presence column: 1 marks a null document
NullFlag(r) == IF r % 3 = 2 THEN 1 ELSE 0

\* rows lying in a page that the delete predicate partially satisfies
DeletedRow(r) == r = 1

DEL_NOT_SATISFIED == "DEL_NOT_SATISFIED"
DEL_PARTIAL_SATISFIED == "DEL_PARTIAL_SATISFIED"

\* ---------------------------------- collaborators: ColumnIterator (sub-iterators)
NoIter == [present |-> FALSE, inited |-> FALSE, ord |-> 0]
NewIter == [present |-> TRUE, inited |-> FALSE, ord |-> 0]

SubInit(it) == [it EXCEPT !.inited = TRUE, !.ord = 0]
SubSeek(it, ord) == [it EXCEPT !.ord = ord]

\* the row ordinals one sub-iterator read delivers, in delivery order
SubReadRows(it, mode, n, rows) ==
    IF mode = "next_n"
    THEN [k \in 1 .. Min(n, NumRows - it.ord) |-> it.ord + k - 1]
    ELSE rows

SubOrdAfter(it, mode, n, rows) ==
    IF mode = "next_n" THEN it.ord + Min(n, NumRows - it.ord)
    ELSE IF Len(rows) = 0 THEN it.ord ELSE rows[Len(rows)] + 1

SubDeleteState(old, rows) ==
    IF old # DEL_NOT_SATISFIED \/ \E k \in 1 .. Len(rows) : DeletedRow(rows[k])
    THEN DEL_PARTIAL_SATISFIED ELSE DEL_NOT_SATISFIED

\* ------------------------------------------------ collaborators: columns
EmptyColumn(type) == [type |-> type, rows |-> <<>>, delete_state |-> DEL_NOT_SATISFIED]

EmptyDst(nullable) ==
    [nullable |-> nullable, null_column |-> <<>>, has_null |-> FALSE,
     delete_state |-> DEL_NOT_SATISFIED, flat_columns |-> <<>>]

\* JsonColumn::init_flat_columns: creates the flat fields once
InitFlatColumns(cols, paths, types) ==
    IF Len(cols) = 0 THEN [i \in 1 .. Len(paths) |-> EmptyColumn(types[i])] ELSE cols

\* JsonColumn::size of a flat json column
JsonSize(cols) == IF Len(cols) = 0 THEN 0 ELSE Len(cols[1].rows)

\* NullableColumn::update_has_null
UpdateHasNull(nulls) == \E k \in 1 .. Len(nulls) : nulls[k] = 1

\* ------------------------------------------- collaborators: cast evaluator
CastValue(from, to, v) ==
    IF v = Null THEN Null
    ELSE IF from = "INT" /\ to = "STRING" THEN StrV(IntToString(v[2][1]))
    ELSE IF from = "STRING" /\ to = "INT"
         THEN IF IsNumeric(v[2]) THEN IntV(StringToInt(v[2])) ELSE Null
    ELSE v

\* the result column of evaluate_checked: a ConstColumn (is_constant, and
\* only_null when its value is null) when the evaluator folds a batch whose
\* results are all equal, a full column otherwise
CastEvaluate(expr, source_rows, repr) ==
    LET vals == [k \in 1 .. Len(source_rows) |-> CastValue(expr[1], expr[2], source_rows[k])]
        fold == repr = "const" /\ Len(vals) > 0 /\ \A k \in 1 .. Len(vals) : vals[k] = vals[1]
    IN  IF fold
        THEN [is_constant |-> TRUE, only_null |-> vals[1] = Null, data |-> <<vals[1]>>]
        ELSE [is_constant |-> FALSE, only_null |-> FALSE, data |-> vals]

\* ------------------------------------------------------- reader configurations
Paths == {"c1", "c2"}

\* (flat_paths, target_types, source_types) handed to the factory
FieldConfigs ==
    { [paths |-> <<"$.a", "$.b">>, target |-> <<"INT", "STRING">>, source |-> <<"INT", "INT">>],
      [paths |-> <<"$.a", "$.b">>, target |-> <<"INT", "INT">>, source |-> <<"STRING", "INT">>] }

nullptr == <<>>
EmptyHits == [q \in {} |-> 0]

\* --------------------------------------------------------------------- state
VARIABLES
    kind,               \* "flat": JsonFlatColumnIterator, "dynamic": JsonDynamicFlatIterator
    life,               \* "constructed", "initialized", "failed" (discarded), "fatal" (process ended)
    null_iter,          \* _null_iter
    flat_iters,         \* _flat_iters
    json_iter,          \* _json_iter
    flat_paths,         \* _flat_paths
    target_types,       \* _target_types
    source_types,       \* _source_types
    path,               \* _path->absolute_path()
    cast_exprs,         \* _cast_exprs
    source_columns,     \* _source_columns
    flattener,          \* _flattener
    flat_json_hits,     \* opts.stats->flat_json_hits
    dynamic_json_hits,  \* opts.stats->dynamic_json_hits
    dst,                \* the caller's destination column
    ret,                \* what the last call returned, with its arguments
    calls,              \* the collaborator calls the last call made, in order
    seeked,             \* ordinal of the seek when the last call was a successful seek, else -1
    opened,             \* readers constructed so far
    init_log            \* per (kind, path): successful inits, and whether an init failed

vars == <<kind, life, null_iter, flat_iters, json_iter, flat_paths, target_types,
          source_types, path, cast_exprs, source_columns, flattener, flat_json_hits,
          dynamic_json_hits, dst, ret, calls, seeked, opened, init_log>>

reader_vars == <<kind, null_iter, flat_iters, json_iter, flat_paths, target_types,
                 source_types, path, cast_exprs, source_columns, flattener>>
config_vars == <<kind, flat_paths, target_types, source_types, path, opened>>
stats_vars == <<flat_json_hits, dynamic_json_hits>>

NoZm == [preds |-> {}, del |-> {}, rel |-> "AND", given |-> {}]
NoReq == [mode |-> "none", n |-> 0, rows |-> <<>>, ord |-> 0, fresh |-> FALSE, zm |-> NoZm]
\* after_seek: the ordinal of the successful seek that came just before the call, or -1
Ret(op, status, n, value, row_ranges, req) ==
    [op |-> op, status |-> status, n |-> n, value |-> value,
     row_ranges |-> row_ranges, req |-> req, after_seek |-> seeked]
NoRet == [op |-> "none", status |-> OK, n |-> 0, value |-> 0,
          row_ranges |-> {}, req |-> NoReq, after_seek |-> -1]

Kinds == {"flat", "dynamic"}
NoLog == [k \in Kinds \X Paths |-> [ok |-> 0, failed |-> FALSE]]

\* ------------------------------------------------------------ construction
\* JsonFlatColumnIterator::JsonFlatColumnIterator via create_json_flat_iterator
FlatConstructed(has_null, c, p) ==
    /\ kind = "flat"
    /\ null_iter = IF has_null THEN NewIter ELSE NoIter
    /\ flat_iters = [i \in 1 .. Len(c.paths) |-> NewIter]
    /\ json_iter = NoIter
    /\ flat_paths = c.paths
    /\ target_types = c.target
    /\ source_types = c.source
    /\ path = p
    /\ cast_exprs = <<>>
    /\ source_columns = <<>>
    /\ flattener = nullptr

\* JsonDynamicFlatIterator::JsonDynamicFlatIterator via create_json_dynamic_flat_iterator
DynamicConstructed(c, p) ==
    /\ kind = "dynamic"
    /\ null_iter = NoIter
    /\ flat_iters = <<>>
    /\ json_iter = NewIter
    /\ flat_paths = c.paths
    /\ target_types = c.target
    /\ source_types = <<>>
    /\ path = p
    /\ cast_exprs = <<>>
    /\ source_columns = <<>>
    /\ flattener = nullptr

CallerFresh ==
    /\ life = "constructed"
    /\ dst = EmptyDst(FALSE)
    /\ ret = NoRet
    /\ calls = <<>>
    /\ seeked = -1

Init ==
    /\ \/ \E has_null \in BOOLEAN, c \in FieldConfigs : FlatConstructed(has_null, c, "c1")
       \/ \E c \in FieldConfigs : DynamicConstructed(c, "c1")
    /\ CallerFresh
    /\ flat_json_hits = EmptyHits
    /\ dynamic_json_hits = EmptyHits
    /\ opened = 1
    /\ init_log = NoLog

\* ------------------------------------------------------------------ helpers
\* the owned sub-iterators in the order init and the seeks visit them
IterOrder ==
    (IF null_iter.present THEN <<NullIt>> ELSE <<>>) \o [i \in 1 .. Len(flat_iters) |-> i]

IterIds == {IterOrder[k] : k \in 1 .. Len(IterOrder)}

FailChoices(its) == {NoFail} \cup {ReadFail(it, IterError) : it \in its}

\* position in order of the sub-iterator that fails, 0 when none does
FailPos(order, fail) ==
    IF fail.kind # "read" THEN 0 ELSE CHOOSE k \in 1 .. Len(order) : order[k] = fail.at

\* variant: the entry is set to 1 whether or not it exists
HitsAfter_Reset(hits, abs_path) ==
    [q \in DOMAIN hits \cup {abs_path} |-> IF q = abs_path THEN 1 ELSE hits[q]]

\* opts.stats->X[abs_path]: insert at 1, or add 1
HitsAfter(hits, abs_path) ==
    IF abs_path \notin DOMAIN hits
    THEN [q \in DOMAIN hits \cup {abs_path} |-> IF q = abs_path THEN 1 ELSE hits[q]]
    ELSE [hits EXCEPT ![abs_path] = hits[abs_path] + 1]

\* a release build differs from a debug build only where a DCHECK (or the
\* assert of down_cast) can fire; elsewhere the debug build stands for both
Builds(observable) == IF observable THEN BOOLEAN ELSE {TRUE}

HitCount(hits, p) == IF p \in DOMAIN hits THEN hits[p] ELSE 0

\* ------------------------------------------ JsonFlatColumnIterator::init
\* variant: a cast expression is compiled for every field
CastPlanEntry_Always(target, source) == <<source, target>>

\* one cast-plan entry: nullptr when the types agree, else the cast expression
CastPlanEntry(target, source) == IF target = source THEN nullptr ELSE <<source, target>>
SourceColumnEntry(target, source) == IF target = source THEN nullptr ELSE <<source>>

\* variant: the loop goes on after a failure and reports it at the end
Completed_NoStop(order, fail) == Len(order)

\* how many sub-iterators of order a loop with RETURN_IF_ERROR completes
Completed(order, fail) ==
    IF FailPos(order, fail) = 0 THEN Len(order) ELSE FailPos(order, fail) - 1
Attempted(order, fail) ==
    IF FailPos(order, fail) = 0 THEN Len(order) ELSE FailPos(order, fail)

init_flat(fail, dcheck) ==
    LET order == IterOrder
        done == {order[k] : k \in 1 .. Completed(order, fail)}
        log == [k \in 1 .. Attempted(order, fail) |-> Call(order[k], "init", <<>>)]
        its == [null_iter |-> IF NullIt \in done THEN SubInit(null_iter) ELSE null_iter,
                flat_iters |-> [i \in 1 .. Len(flat_iters) |->
                                  IF i \in done THEN SubInit(flat_iters[i]) ELSE flat_iters[i]],
                calls |-> log]
        same == [flat_json_hits |-> flat_json_hits, cast_exprs |-> cast_exprs,
                 source_columns |-> source_columns]
    IN  IF fail.kind = "read"
        THEN its @@ same @@ [status |-> Error(fail.code, fail.at), life |-> "failed"]
        ELSE IF dcheck /\ Len(target_types) # Len(source_types)
        THEN its @@ same @@
             [flat_json_hits |-> HitsAfter(flat_json_hits, path),
              status |-> Error("DCHECK", 0), life |-> "fatal"]
        ELSE its @@
             [flat_json_hits |-> HitsAfter(flat_json_hits, path),
              cast_exprs |-> cast_exprs \o
                  [i \in 1 .. Len(target_types) |-> CastPlanEntry(target_types[i], source_types[i])],
              source_columns |-> source_columns \o
                  [i \in 1 .. Len(target_types) |-> SourceColumnEntry(target_types[i], source_types[i])],
              status |-> OK, life |-> "initialized"]

LogInit(k, ok) ==
    [init_log EXCEPT ![<<k, path>>] =
        IF ok THEN [@ EXCEPT !.ok = @ + 1] ELSE [@ EXCEPT !.failed = TRUE]]

JsonFlatColumnIterator_init(fail, dcheck) ==
    /\ kind = "flat"
    /\ life = "constructed"
    /\ dcheck \in Builds(Len(target_types) # Len(source_types))
    /\ fail \in FailChoices(IterIds)
    /\ LET r == init_flat(fail, dcheck)
       IN  /\ null_iter' = r.null_iter
           /\ flat_iters' = r.flat_iters
           /\ flat_json_hits' = r.flat_json_hits
           /\ cast_exprs' = r.cast_exprs
           /\ source_columns' = r.source_columns
           /\ life' = r.life
           /\ calls' = r.calls
           /\ ret' = Ret("init", r.status, 0, 0, {}, NoReq)
           /\ init_log' = LogInit("flat", r.status.ok)
    /\ seeked' = -1
    /\ UNCHANGED <<config_vars, json_iter, flattener, dynamic_json_hits, dst>>

\* ------------------------------------------------------------- batch requests
RECURSIVE SortedSeq(_)
SortedSeq(S) ==
    IF S = {} THEN <<>>
    ELSE LET m == CHOOSE x \in S : \A y \in S : x <= y
         IN  <<m>> \o SortedSeq(S \ {m})

\* a SparseRange, as the ascending sequence of the row ordinals it covers
RangeChoices == {SortedSeq(S) : S \in (SUBSET Rows) \ {{}}}
\* a rowid list (rowids, size)
RowidChoices == {<<a>> : a \in Rows} \cup {<<a, b>> : a \in Rows, b \in Rows}
\* the scan hands the row ids over in ascending order; a row id may repeat
SortedRowids == {s \in RowidChoices : Len(s) = 1 \/ s[1] <= s[2]}
BatchSizes == 1 .. NumRows

ReqNextN(n, fresh) == [NoReq EXCEPT !.mode = "next_n", !.n = n, !.fresh = fresh]
ReqRange(range, fresh) ==
    [NoReq EXCEPT !.mode = "range", !.n = Len(range), !.rows = range, !.fresh = fresh]
ReqRowid(rowids, fresh) ==
    [NoReq EXCEPT !.mode = "rowid", !.n = Len(rowids), !.rows = rowids, !.fresh = fresh]
ReqSeek(ord) == [NoReq EXCEPT !.mode = "seek", !.ord = ord]
ReqZoneMap(zm) == [NoReq EXCEPT !.mode = "zone_map", !.zm = zm]

ReadOp(mode) ==
    CASE mode = "next_n" -> "next_batch"
      [] mode = "range" -> "next_batch_range"
      [] OTHER -> "fetch_values_by_rowid"

\* rows held by a destination, and the room left in the caller's chunk
DstRows(d) == IF Len(d.null_column) > JsonSize(d.flat_columns)
              THEN Len(d.null_column) ELSE JsonSize(d.flat_columns)
Room == NumRows - DstRows(dst)

\* ------------------------- collaborators: one read of one sub-iterator into a column
\* (ColumnIterator::next_batch / fetch_values_by_rowid of a scalar sub-iterator)
SubRead(it, p, type, column, mode, n, rows) ==
    LET got == SubReadRows(it, mode, n, rows)
    IN  [it |-> [it EXCEPT !.ord = SubOrdAfter(it, mode, n, rows)],
         column |-> [column EXCEPT
                        !.rows = @ \o [k \in 1 .. Len(got) |-> PhysValue(p, type, got[k])],
                        !.delete_state = SubDeleteState(@, got)],
         n |-> IF mode = "next_n" THEN Len(got) ELSE n,
         rows |-> got]

\* the same read of the null sub-iterator into the null sub-column
SubReadNull(it, nulls, mode, n, rows) ==
    LET got == SubReadRows(it, mode, n, rows)
    IN  [it |-> [it EXCEPT !.ord = SubOrdAfter(it, mode, n, rows)],
         nulls |-> nulls \o [k \in 1 .. Len(got) |-> NullFlag(got[k])],
         n |-> IF mode = "next_n" THEN Len(got) ELSE n,
         rows |-> got]

\* ------------------------------- JsonFlatColumnIterator::_read_and_cast
\* variant: the row count is taken from the cast result, not from the scratch column
AppendCastResult_ResSize(target, res, source) ==
    LET size == Len(res.data)
        t == [target EXCEPT !.delete_state = source.delete_state]
    IN  IF res.only_null
        THEN [t EXCEPT !.rows = @ \o [k \in 1 .. size |-> Null]]
        ELSE IF res.is_constant
        THEN [t EXCEPT !.rows = @ \o [k \in 1 .. size |-> res.data[1]]]
        ELSE [t EXCEPT !.rows = @ \o SubSeq(res.data, 1, size)]

\* variant: the scratch column is appended in place of the cast result
AppendCastResult_Uncast(target, res, source) ==
    LET size == Len(source.rows)
        t == [target EXCEPT !.delete_state = source.delete_state]
    IN  IF res.only_null
        THEN [t EXCEPT !.rows = @ \o [k \in 1 .. size |-> Null]]
        ELSE IF res.is_constant
        THEN [t EXCEPT !.rows = @ \o [k \in 1 .. size |-> res.data[1]]]
        ELSE [t EXCEPT !.rows = @ \o SubSeq(source.rows, 1, size)]

\* variant: a folded result is appended as the one row it holds
AppendCastResult_OneRow(target, res, source) ==
    LET size == Len(source.rows)
        t == [target EXCEPT !.delete_state = source.delete_state]
    IN  IF res.only_null
        THEN [t EXCEPT !.rows = @ \o <<Null>>]
        ELSE IF res.is_constant
        THEN [t EXCEPT !.rows = @ \o <<res.data[1]>>]
        ELSE [t EXCEPT !.rows = @ \o SubSeq(res.data, 1, size)]

\* lines 157-166: the cast result res lands in the flat field target
AppendCastResult(target, res, source) ==
    LET size == Len(source.rows)
        t == [target EXCEPT !.delete_state = source.delete_state]
    IN  IF res.only_null
        THEN [t EXCEPT !.rows = @ \o [k \in 1 .. size |-> Null]]
        ELSE IF res.is_constant
        THEN [t EXCEPT !.rows = @ \o [k \in 1 .. size |-> res.data[1]]]
        ELSE [t EXCEPT !.rows = @ \o SubSeq(res.data, 1, size)]

EvaluateOp(res) ==
    IF res.only_null THEN "evaluate_only_null"
    ELSE IF res.is_constant THEN "evaluate_constant" ELSE "evaluate_full"

\* line 151: the field goes through the cast branch
HasCast(i) == cast_exprs[i] # nullptr

\* one round of the loop of lines 150-172 for field i, on the loop state st
ReadAndCastField(i, st, req, fail, repr, dcheck) ==
    LET op == ReadOp(req.mode)
        failed_read == fail.kind = "read" /\ fail.at = i
        failed_cast == fail.kind = "cast" /\ fail.at = i
    IN  IF HasCast(i)
        THEN LET source == EmptyColumn(source_columns[i][1])
                 rd == SubRead(st.flat_iters[i], flat_paths[i], source_types[i], source,
                               req.mode, st.n, req.rows)
                 res == CastEvaluate(cast_exprs[i], rd.column.rows, repr)
                 target == AppendCastResult(st.flat_columns[i], res, rd.column)
                 cols == [st.flat_columns EXCEPT ![i] = target]
                 read_st == [st EXCEPT !.flat_iters[i] = rd.it, !.n = rd.n,
                                       !.calls = @ \o <<Call(i, op, rd.rows)>>]
             IN  IF failed_read
                 THEN [st EXCEPT !.calls = @ \o <<Call(i, op, <<>>)>>,
                                 !.status = Error(fail.code, i), !.life = "failed"]
                 ELSE IF failed_cast
                 THEN [read_st EXCEPT !.calls = @ \o <<Call(i, "evaluate_failed", <<>>)>>,
                                      !.status = Error(fail.code, i), !.life = "failed"]
                 ELSE IF dcheck /\ JsonSize(cols) # Len(target.rows)
                 THEN [read_st EXCEPT !.calls = @ \o <<Call(i, EvaluateOp(res), <<>>)>>,
                                      !.flat_columns = cols,
                                      !.status = Error("DCHECK", i), !.life = "fatal"]
                 ELSE [read_st EXCEPT !.calls = @ \o <<Call(i, EvaluateOp(res), <<>>)>>,
                                      !.flat_columns = cols]
        ELSE LET rd == SubRead(st.flat_iters[i], flat_paths[i], source_types[i],
                               st.flat_columns[i], req.mode, st.n, req.rows)
             IN  IF failed_read
                 THEN [st EXCEPT !.calls = @ \o <<Call(i, op, <<>>)>>,
                                 !.status = Error(fail.code, i), !.life = "failed"]
                 ELSE [st EXCEPT !.flat_iters[i] = rd.it, !.n = rd.n,
                                 !.flat_columns[i] = rd.column,
                                 !.calls = @ \o <<Call(i, op, rd.rows)>>]

\* variant: the loop goes on to the next field after a failure
RECURSIVE ReadAndCastLoop_NoStop(_, _, _, _, _, _)
ReadAndCastLoop_NoStop(i, st, req, fail, repr, dcheck) ==
    IF i > Len(flat_iters) THEN st
    ELSE ReadAndCastLoop_NoStop(i + 1, ReadAndCastField(i, st, req, fail, repr, dcheck),
                                req, fail, repr, dcheck)

RECURSIVE ReadAndCastLoop(_, _, _, _, _, _)
ReadAndCastLoop(i, st, req, fail, repr, dcheck) ==
    IF i > Len(flat_iters) \/ ~st.status.ok THEN st
    ELSE ReadAndCastLoop(i + 1, ReadAndCastField(i, st, req, fail, repr, dcheck),
                         req, fail, repr, dcheck)

\* st carries the destination, the sub-iterators, n, the call log and the status
read_and_cast(st, req, fail, repr, dcheck) ==
    ReadAndCastLoop(1,
        [st EXCEPT !.flat_columns = InitFlatColumns(@, flat_paths, target_types)],
        req, fail, repr, dcheck)

\* the state a batch read starts from, on destination d
ReadState(d, n) ==
    [nullable |-> d.nullable, null_column |-> d.null_column, has_null |-> d.has_null,
     delete_state |-> d.delete_state, flat_columns |-> d.flat_columns,
     null_iter |-> null_iter, flat_iters |-> flat_iters, n |-> n, calls |-> <<>>,
     status |-> OK, life |-> life]

Crashed(st, code, log) ==
    [st EXCEPT !.status = Error(code, 0), !.life = "fatal", !.calls = log]

\* variant: the null sub-iterator delivers the rows but is left where it was
ReadNullColumn_Stay(st, req, fail) ==
    LET rd == SubReadNull(st.null_iter, st.null_column, req.mode, st.n, req.rows)
    IN  IF fail.kind = "read" /\ fail.at = NullIt
        THEN [st EXCEPT !.calls = <<Call(NullIt, ReadOp(req.mode), <<>>)>>,
                        !.status = Error(fail.code, NullIt), !.life = "failed"]
        ELSE [st EXCEPT !.null_column = rd.nulls, !.n = rd.n,
                        !.has_null = UpdateHasNull(rd.nulls),
                        !.calls = <<Call(NullIt, ReadOp(req.mode), rd.rows)>>]

\* variant: the has-null flag is not refreshed after the null read
ReadNullColumn_StaleFlag(st, req, fail) ==
    LET rd == SubReadNull(st.null_iter, st.null_column, req.mode, st.n, req.rows)
    IN  IF fail.kind = "read" /\ fail.at = NullIt
        THEN [st EXCEPT !.calls = <<Call(NullIt, ReadOp(req.mode), <<>>)>>,
                        !.status = Error(fail.code, NullIt), !.life = "failed"]
        ELSE [st EXCEPT !.null_iter = rd.it, !.null_column = rd.nulls, !.n = rd.n,
                        !.calls = <<Call(NullIt, ReadOp(req.mode), rd.rows)>>]

\* step "1. Read null column" shared by the three entry points
ReadNullColumn(st, req, fail) ==
    LET rd == SubReadNull(st.null_iter, st.null_column, req.mode, st.n, req.rows)
    IN  IF fail.kind = "read" /\ fail.at = NullIt
        THEN [st EXCEPT !.calls = <<Call(NullIt, ReadOp(req.mode), <<>>)>>,
                        !.status = Error(fail.code, NullIt), !.life = "failed"]
        ELSE [st EXCEPT !.null_iter = rd.it, !.null_column = rd.nulls, !.n = rd.n,
                        !.has_null = UpdateHasNull(rd.nulls),
                        !.calls = <<Call(NullIt, ReadOp(req.mode), rd.rows)>>]

\* ----------------------- JsonFlatColumnIterator::next_batch(size_t* n, Column* dst)
next_batch_flat(d, req, fail, repr, dcheck) ==
    LET st == ReadState(d, req.n)
    IN  IF null_iter.present
        THEN IF ~d.nullable
             THEN \* null_column is nullptr: the null sub-iterator writes through it
                  Crashed(st, "SIGSEGV", <<Call(NullIt, "next_batch", <<>>)>>)
             ELSE LET st1 == ReadNullColumn(st, req, fail)
                  IN  IF st1.status.ok THEN read_and_cast(st1, req, fail, repr, dcheck) ELSE st1
        ELSE read_and_cast(st, req, fail, repr, dcheck)

\* ------------ JsonFlatColumnIterator::next_batch(const SparseRange<>& range, Column* dst)
next_batch_range_flat(d, req, fail, repr, dcheck) ==
    LET st == ReadState(d, req.n)
    IN  IF null_iter.present # d.nullable
        THEN Crashed(st, "CHECK", <<>>)
        ELSE IF null_iter.present
        THEN LET st1 == ReadNullColumn(st, req, fail)
             IN  IF st1.status.ok THEN read_and_cast(st1, req, fail, repr, dcheck) ELSE st1
        ELSE read_and_cast(st, req, fail, repr, dcheck)

\* ------------------------------- JsonFlatColumnIterator::fetch_values_by_rowid
\* a down_cast to the wrong column class asserts in a debug build; in a release
\* build the wild object is used until the process dies, before (reached = FALSE)
\* or inside (reached = TRUE) the first sub-iterator call
fetch_values_by_rowid_flat(d, req, fail, repr, dcheck, reached) ==
    LET st == ReadState(d, req.n)
        first == IF null_iter.present THEN NullIt ELSE 1
    IN  IF null_iter.present # d.nullable
        THEN IF dcheck THEN Crashed(st, "DCHECK", <<>>)
             ELSE Crashed(st, "SIGSEGV",
                          IF reached THEN <<Call(first, "fetch_values_by_rowid", <<>>)>> ELSE <<>>)
        ELSE IF null_iter.present
        THEN LET st1 == ReadNullColumn(st, req, fail)
             IN  IF st1.status.ok THEN read_and_cast(st1, req, fail, repr, dcheck) ELSE st1
        ELSE read_and_cast(st, req, fail, repr, dcheck)

Mismatch(d) == null_iter.present # d.nullable
UnevenFields(d) ==
    \/ \E i, j \in 1 .. Len(d.flat_columns) : Len(d.flat_columns[i].rows) # Len(d.flat_columns[j].rows)
    \/ \E i, j \in 1 .. Len(flat_iters) : flat_iters[i].ord # flat_iters[j].ord
AnyCast == \E i \in 1 .. Len(cast_exprs) : HasCast(i)
ReprChoices == IF AnyCast THEN {"full", "const"} ELSE {"full"}

ReadFailChoices ==
    FailChoices(IterIds) \cup
    {CastFail(i, CastError) : i \in {j \in 1 .. Len(cast_exprs) : HasCast(j)}}
Reprs == {"full", "const"}

\* the caller's view after a batch read that ended in state st
FlatReadDone(op, req, st) ==
    /\ null_iter' = st.null_iter
    /\ flat_iters' = st.flat_iters
    /\ dst' = [nullable |-> st.nullable, null_column |-> st.null_column,
               has_null |-> st.has_null, delete_state |-> st.delete_state,
               flat_columns |-> st.flat_columns]
    /\ life' = st.life
    /\ calls' = st.calls
    /\ ret' = Ret(op, st.status, st.n, 0, {}, req)
    /\ seeked' = -1
    /\ UNCHANGED <<config_vars, json_iter, cast_exprs, source_columns, flattener,
                   stats_vars, init_log>>

\* the caller gets the destination of its next batch read ready: a fresh empty
\* column (null-wrapped or not), or the column it filled last while that
\* column still has room and holds a single batch (a column receives at most
\* two batches)
DstUses == {"fresh_nullable", "fresh_plain", "same"}
Caller_prepare_dst(use) ==
    /\ life = "initialized"
    /\ ret.op # "prepare"
    /\ use = "same" =>
          /\ DstRows(dst) > 0
          /\ Room > 0
          /\ ret.op \in {"next_batch", "next_batch_range", "fetch_values_by_rowid"} => ret.req.fresh
    /\ dst' = CASE use = "fresh_nullable" -> EmptyDst(TRUE)
                [] use = "fresh_plain" -> EmptyDst(FALSE)
                [] OTHER -> dst
    /\ ret' = Ret("prepare", OK, 0, 0, {}, [NoReq EXCEPT !.fresh = use # "same"])
    /\ calls' = <<>>
    /\ UNCHANGED <<reader_vars, stats_vars, life, seeked, opened, init_log>>

Prepared(k, wanted) ==
    kind = k /\ life = "initialized" /\ ret.op = "prepare" /\ wanted <= Room

JsonFlatColumnIterator_next_batch(n, fail, repr, dcheck) ==
    /\ Prepared("flat", n)
    /\ dcheck \in Builds(UnevenFields(dst))
    /\ \E st \in {next_batch_flat(dst, ReqNextN(n, ret.req.fresh), fail, repr, dcheck)} :
          FlatReadDone("next_batch", ReqNextN(n, ret.req.fresh), st)

JsonFlatColumnIterator_next_batch_range(range, fail, repr, dcheck) ==
    /\ Prepared("flat", Len(range))
    /\ dcheck \in Builds(UnevenFields(dst))
    /\ \E st \in {next_batch_range_flat(dst, ReqRange(range, ret.req.fresh), fail, repr, dcheck)} :
          FlatReadDone("next_batch_range", ReqRange(range, ret.req.fresh), st)

JsonFlatColumnIterator_fetch_values_by_rowid(rowids, fail, repr, dcheck, reached) ==
    /\ Prepared("flat", Len(rowids))
    /\ dcheck \in Builds(UnevenFields(dst) \/ Mismatch(dst))
    /\ reached \in (IF Mismatch(dst) /\ ~dcheck THEN BOOLEAN ELSE {FALSE})
    /\ \E st \in {fetch_values_by_rowid_flat(dst, ReqRowid(rowids, ret.req.fresh),
                                             fail, repr, dcheck, reached)} :
          FlatReadDone("fetch_values_by_rowid", ReqRowid(rowids, ret.req.fresh), st)

\* ------------------- JsonFlatColumnIterator::seek_to_first / seek_to_ordinal
SeekOver(order, op, ord, fail) ==
    LET done == {order[k] : k \in 1 .. Completed(order, fail)}
    IN  [null_iter |-> IF NullIt \in done THEN SubSeek(null_iter, ord) ELSE null_iter,
         flat_iters |-> [i \in 1 .. Len(flat_iters) |->
                           IF i \in done THEN SubSeek(flat_iters[i], ord) ELSE flat_iters[i]],
         calls |-> [k \in 1 .. Attempted(order, fail) |-> Call(order[k], op, <<ord>>)],
         status |-> IF fail.kind = "read" THEN Error(fail.code, fail.at) ELSE OK,
         life |-> IF fail.kind = "read" THEN "failed" ELSE life]

\* variant: the flat-field sub-iterators are seeked before the null sub-iterator
seek_flat_FieldsFirst(op, ord, fail) ==
    SeekOver([i \in 1 .. Len(flat_iters) |-> i] \o
             (IF null_iter.present THEN <<NullIt>> ELSE <<>>), op, ord, fail)

\* variant: the loop stops one flat-field sub-iterator short
seek_flat_OneShort(op, ord, fail) ==
    LET r == SeekOver(IterOrder, op, ord, fail)
        last == Len(flat_iters)
    IN  [r EXCEPT !.flat_iters[last] = flat_iters[last]]

\* the loop of lines 246-251 / 256-261: seek each sub-iterator of order to ord
seek_flat(op, ord, fail) == SeekOver(IterOrder, op, ord, fail)

FlatSeekDone(op, ord, r) ==
    /\ null_iter' = r.null_iter
    /\ flat_iters' = r.flat_iters
    /\ calls' = r.calls
    /\ life' = r.life
    /\ ret' = Ret(op, r.status, 0, 0, {}, ReqSeek(ord))
    /\ seeked' = IF r.status.ok THEN ord ELSE -1
    /\ UNCHANGED <<config_vars, json_iter, cast_exprs, source_columns, flattener,
                   stats_vars, init_log, dst>>

JsonFlatColumnIterator_seek_to_first(fail) ==
    /\ Prepared("flat", 0)
    /\ \E r \in {seek_flat("seek_to_first", 0, fail)} : FlatSeekDone("seek_to_first", 0, r)

JsonFlatColumnIterator_seek_to_ordinal(ord, fail) ==
    /\ Prepared("flat", 0)
    /\ \E r \in {seek_flat("seek_to_ordinal", ord, fail)} : FlatSeekDone("seek_to_ordinal", ord, r)

\* ------------------------------ collaborators: zone-map pruning inputs
\* a predicate is the set of rows its zone statistics cannot rule out; the
\* delete predicate is the set of rows it certainly deletes ({} for nullptr)
\* given is what the caller's row_ranges holds on entry; without predicates the
\* relation plays no part and is left at AND
PredicateSets == {{}, {{0, 1}, {1, 2}}}
DelPredicates == {{}, {2}}
CompoundNodeTypes == {"AND", "OR"}
ZoneMapArgs ==
    {zm \in {[preds |-> ps, del |-> d, rel |-> rel, given |-> {}] :
                ps \in PredicateSets, d \in DelPredicates, rel \in CompoundNodeTypes} :
        zm.preds = {} => zm.rel = "AND"}
    \cup {[preds |-> {}, del |-> {}, rel |-> "AND", given |-> {0}]}

\* ColumnIterator::get_row_ranges_by_zone_map of a scalar sub-iterator: the
\* rows the predicates (joined by rel) cannot rule out, less the rows the
\* delete predicate certainly deletes
SubZoneMap(zm) ==
    LET kept == IF zm.preds = {} THEN Rows
                ELSE IF zm.rel = "AND" THEN {r \in Rows : \A q \in zm.preds : r \in q}
                ELSE {r \in Rows : \E q \in zm.preds : r \in q}
    IN  kept \ zm.del

\* SparseRange::add of the range [begin, end), on ranges held as row sets
RangeAdd(ranges, begin, end) == ranges \cup {r \in begin .. (end - 1) : TRUE}

\* ----------------------- JsonFlatColumnIterator::get_row_ranges_by_zone_map
\* variant: the predicates prune, as they do in the sub-iterators
get_row_ranges_by_zone_map_flat_Pruned(zm) ==
    [row_ranges |-> zm.given \cup SubZoneMap(zm), status |-> OK, calls |-> <<>>]

\* static_cast<rowid_t> keeps every row count a segment holds
get_row_ranges_by_zone_map_flat(zm) ==
    [row_ranges |-> RangeAdd(zm.given, 0, NumRows), status |-> OK, calls |-> <<>>]

\* an accessor or a pruning call: it returns, and leaves the reader where it was
Returned(op, status, value, row_ranges, req, log) ==
    /\ ret' = Ret(op, status, 0, value, row_ranges, req)
    /\ calls' = log
    /\ seeked' = -1
    /\ UNCHANGED <<reader_vars, stats_vars, life, dst, opened, init_log>>

JsonFlatColumnIterator_get_row_ranges_by_zone_map(zm) ==
    /\ kind = "flat"
    /\ life \in {"constructed", "initialized"}
    /\ ret.op \in {"none", "prepare"}
    /\ \E r \in {get_row_ranges_by_zone_map_flat(zm)} :
          Returned("get_row_ranges_by_zone_map", r.status, 0, r.row_ranges, ReqZoneMap(zm), r.calls)

\* ----------------- JsonFlatColumnIterator::get_current_ordinal / num_rows
get_current_ordinal_flat ==
    [value |-> flat_iters[1].ord, calls |-> <<Call(1, "get_current_ordinal", <<>>)>>]
num_rows_flat == [value |-> NumRows, calls |-> <<Call(1, "num_rows", <<>>)>>]

JsonFlatColumnIterator_get_current_ordinal ==
    /\ Prepared("flat", 0)
    /\ \E r \in {get_current_ordinal_flat} :
          Returned("get_current_ordinal", OK, r.value, {}, NoReq, r.calls)

JsonFlatColumnIterator_num_rows ==
    /\ Prepared("flat", 0)
    /\ \E r \in {num_rows_flat} : Returned("num_rows", OK, r.value, {}, NoReq, r.calls)

\* ------------------------------------------- collaborators: raw documents
\* the raw document of row r: null, or an object holding the flat paths
Doc(r) ==
    [null |-> NullFlag(r) = 1,
     fields |-> [q \in {"$.a", "$.b"} |-> PhysValue(q, "INT", r)]]

\* one read of the raw-document sub-iterator into the proxy column
SubReadJson(it, proxy, mode, n, rows) ==
    LET got == SubReadRows(it, mode, n, rows)
        flags == [k \in 1 .. Len(got) |-> NullFlag(got[k])]
    IN  [it |-> [it EXCEPT !.ord = SubOrdAfter(it, mode, n, rows)],
         proxy |-> [proxy EXCEPT
                      !.docs = @ \o [k \in 1 .. Len(got) |-> Doc(got[k])],
                      !.null_column = IF proxy.nullable THEN @ \o flags ELSE @,
                      !.has_null = IF proxy.nullable THEN UpdateHasNull(proxy.null_column \o flags)
                                   ELSE FALSE,
                      !.delete_state = SubDeleteState(@, got)],
         n |-> IF mode = "next_n" THEN Len(got) ELSE n,
         rows |-> got]

\* Column::clone_empty of the destination
CloneEmpty(d) ==
    [nullable |-> d.nullable, null_column |-> <<>>, has_null |-> FALSE,
     delete_state |-> DEL_NOT_SATISFIED, docs |-> <<>>]

\* JsonFlattener::flatten: one value per document and descriptor
Flatten(desc, docs, cols) ==
    [i \in 1 .. Len(cols) |->
        [cols[i] EXCEPT !.rows = @ \o
            [k \in 1 .. Len(docs) |->
                IF docs[k].null THEN Null
                ELSE CastValue("INT", desc[2][i], docs[k].fields[desc[1][i]])]]]

\* ------------------------------------------- JsonDynamicFlatIterator::init
init_dynamic(fail) ==
    [dynamic_json_hits |-> HitsAfter(dynamic_json_hits, path),
     flattener |-> <<flat_paths, target_types>>,
     json_iter |-> IF fail.kind = "read" THEN json_iter ELSE SubInit(json_iter),
     calls |-> <<Call(JsonIt, "init", <<>>)>>,
     status |-> IF fail.kind = "read" THEN Error(fail.code, JsonIt) ELSE OK,
     life |-> IF fail.kind = "read" THEN "failed" ELSE "initialized"]

JsonDynamicFlatIterator_init(fail) ==
    /\ kind = "dynamic"
    /\ life = "constructed"
    /\ \E r \in {init_dynamic(fail)} :
          /\ dynamic_json_hits' = r.dynamic_json_hits
          /\ flattener' = r.flattener
          /\ json_iter' = r.json_iter
          /\ calls' = r.calls
          /\ life' = r.life
          /\ ret' = Ret("init", r.status, 0, 0, {}, NoReq)
          /\ init_log' = LogInit("dynamic", r.status.ok)
    /\ seeked' = -1
    /\ UNCHANGED <<config_vars, null_iter, flat_iters, cast_exprs, source_columns,
                   flat_json_hits, dst>>

\* ------------------------------------- JsonDynamicFlatIterator::_flat_json
\* variant: the has-null flag is taken from the proxy alone
flat_json_Overwrite(input, output) ==
    LET wrapped == IF output.nullable
                   THEN [output EXCEPT
                           !.null_column = @ \o SubSeq(input.null_column, 1, Len(input.null_column)),
                           !.has_null = input.has_null]
                   ELSE output
        cols == InitFlatColumns(wrapped.flat_columns, flat_paths, target_types)
    IN  [wrapped EXCEPT !.flat_columns = Flatten(flattener, input.docs, cols)]

\* variant: the null sub-column of the proxy is not copied
flat_json_NoNulls(input, output) ==
    LET wrapped == IF output.nullable
                   THEN [output EXCEPT !.has_null = input.has_null \/ output.has_null]
                   ELSE output
        cols == InitFlatColumns(wrapped.flat_columns, flat_paths, target_types)
    IN  [wrapped EXCEPT !.flat_columns = Flatten(flattener, input.docs, cols)]

flat_json(input, output) ==
    LET wrapped == IF output.nullable
                   THEN [output EXCEPT
                           !.null_column = @ \o SubSeq(input.null_column, 1, Len(input.null_column)),
                           !.has_null = input.has_null \/ output.has_null]
                   ELSE output
        cols == InitFlatColumns(wrapped.flat_columns, flat_paths, target_types)
    IN  [wrapped EXCEPT !.flat_columns = Flatten(flattener, input.docs, cols)]

\* variant: the delete state of the proxy is handed on before the status of
\* the raw read is looked at
batch_read_dynamic_StateFirst(d, req, fail) ==
    LET rd == SubReadJson(json_iter, CloneEmpty(d), req.mode, req.n, req.rows)
    IN  IF fail.kind = "read"
        THEN [dst |-> [d EXCEPT !.delete_state = CloneEmpty(d).delete_state],
              json_iter |-> json_iter, n |-> req.n,
              calls |-> <<Call(JsonIt, ReadOp(req.mode), <<>>)>>,
              status |-> Error(fail.code, JsonIt), life |-> "failed"]
        ELSE [dst |-> flat_json(rd.proxy, [d EXCEPT !.delete_state = rd.proxy.delete_state]),
              json_iter |-> rd.it, n |-> rd.n,
              calls |-> <<Call(JsonIt, ReadOp(req.mode), rd.rows), Call(JsonIt, "flatten", rd.rows)>>,
              status |-> OK, life |-> life]

\* ---------- JsonDynamicFlatIterator::next_batch (both) / fetch_values_by_rowid
batch_read_dynamic(d, req, fail) ==
    LET rd == SubReadJson(json_iter, CloneEmpty(d), req.mode, req.n, req.rows)
    IN  IF fail.kind = "read"
        THEN [dst |-> d, json_iter |-> json_iter, n |-> req.n,
              calls |-> <<Call(JsonIt, ReadOp(req.mode), <<>>)>>,
              status |-> Error(fail.code, JsonIt), life |-> "failed"]
        ELSE [dst |-> flat_json(rd.proxy, [d EXCEPT !.delete_state = rd.proxy.delete_state]),
              json_iter |-> rd.it, n |-> rd.n,
              calls |-> <<Call(JsonIt, ReadOp(req.mode), rd.rows), Call(JsonIt, "flatten", rd.rows)>>,
              status |-> OK, life |-> life]

next_batch_dynamic(d, req, fail) == batch_read_dynamic(d, req, fail)
next_batch_range_dynamic(d, req, fail) == batch_read_dynamic(d, req, fail)
fetch_values_by_rowid_dynamic(d, req, fail) == batch_read_dynamic(d, req, fail)

DynamicReadDone(op, req, r) ==
    /\ json_iter' = r.json_iter
    /\ dst' = r.dst
    /\ life' = r.life
    /\ calls' = r.calls
    /\ ret' = Ret(op, r.status, r.n, 0, {}, req)
    /\ seeked' = -1
    /\ UNCHANGED <<config_vars, null_iter, flat_iters, cast_exprs, source_columns, flattener,
                   stats_vars, init_log>>

JsonDynamicFlatIterator_next_batch(n, fail) ==
    /\ Prepared("dynamic", n)
    /\ \E r \in {next_batch_dynamic(dst, ReqNextN(n, ret.req.fresh), fail)} :
          DynamicReadDone("next_batch", ReqNextN(n, ret.req.fresh), r)

JsonDynamicFlatIterator_next_batch_range(range, fail) ==
    /\ Prepared("dynamic", Len(range))
    /\ \E r \in {next_batch_range_dynamic(dst, ReqRange(range, ret.req.fresh), fail)} :
          DynamicReadDone("next_batch_range", ReqRange(range, ret.req.fresh), r)

JsonDynamicFlatIterator_fetch_values_by_rowid(rowids, fail) ==
    /\ Prepared("dynamic", Len(rowids))
    /\ \E r \in {fetch_values_by_rowid_dynamic(dst, ReqRowid(rowids, ret.req.fresh), fail)} :
          DynamicReadDone("fetch_values_by_rowid", ReqRowid(rowids, ret.req.fresh), r)

\* ------------------------ JsonDynamicFlatIterator: the pass-through calls
\* what the raw-document sub-iterator answers to each call
SubSeekResult(it, op, ord, fail) ==
    [it |-> IF fail.kind = "read" THEN it ELSE SubSeek(it, ord),
     status |-> IF fail.kind = "read" THEN Error(fail.code, JsonIt) ELSE OK,
     calls |-> <<Call(JsonIt, op, <<ord>>)>>]
SubZoneMapResult(zm, fail) ==
    [row_ranges |-> IF fail.kind = "read" THEN zm.given ELSE SubZoneMap(zm),
     status |-> IF fail.kind = "read" THEN Error(fail.code, JsonIt) ELSE OK,
     calls |-> <<Call(JsonIt, "get_row_ranges_by_zone_map", <<>>)>>]
SubOrdinalResult(it) == [value |-> it.ord, calls |-> <<Call(JsonIt, "get_current_ordinal", <<>>)>>]
SubNumRowsResult(it) == [value |-> NumRows, calls |-> <<Call(JsonIt, "num_rows", <<>>)>>]

\* variant: pruning is answered with the full range, as the flat reader does
get_row_ranges_by_zone_map_dynamic_Full(zm, fail) ==
    [row_ranges |-> RangeAdd(zm.given, 0, NumRows), status |-> OK, calls |-> <<>>]

seek_to_first_dynamic(fail) == SubSeekResult(json_iter, "seek_to_first", 0, fail)
seek_to_ordinal_dynamic(ord, fail) == SubSeekResult(json_iter, "seek_to_ordinal", ord, fail)
get_row_ranges_by_zone_map_dynamic(zm, fail) == SubZoneMapResult(zm, fail)
get_current_ordinal_dynamic == SubOrdinalResult(json_iter)
num_rows_dynamic == SubNumRowsResult(json_iter)

FailedLife(status) == IF status.ok THEN life ELSE "failed"

DynamicSeekDone(op, ord, r) ==
    /\ json_iter' = r.it
    /\ calls' = r.calls
    /\ life' = FailedLife(r.status)
    /\ ret' = Ret(op, r.status, 0, 0, {}, ReqSeek(ord))
    /\ seeked' = IF r.status.ok THEN ord ELSE -1
    /\ UNCHANGED <<config_vars, null_iter, flat_iters, cast_exprs, source_columns, flattener,
                   stats_vars, init_log, dst>>

JsonDynamicFlatIterator_seek_to_first(fail) ==
    /\ Prepared("dynamic", 0)
    /\ \E r \in {seek_to_first_dynamic(fail)} : DynamicSeekDone("seek_to_first", 0, r)

JsonDynamicFlatIterator_seek_to_ordinal(ord, fail) ==
    /\ Prepared("dynamic", 0)
    /\ \E r \in {seek_to_ordinal_dynamic(ord, fail)} : DynamicSeekDone("seek_to_ordinal", ord, r)

JsonDynamicFlatIterator_get_row_ranges_by_zone_map(zm, fail) ==
    /\ Prepared("dynamic", 0)
    /\ \E r \in {get_row_ranges_by_zone_map_dynamic(zm, fail)} :
          /\ ret' = Ret("get_row_ranges_by_zone_map", r.status, 0, 0, r.row_ranges, ReqZoneMap(zm))
          /\ calls' = r.calls
          /\ life' = FailedLife(r.status)
          /\ seeked' = -1
          /\ UNCHANGED <<reader_vars, stats_vars, dst, opened, init_log>>

JsonDynamicFlatIterator_get_current_ordinal ==
    /\ Prepared("dynamic", 0)
    /\ \E r \in {get_current_ordinal_dynamic} :
          Returned("get_current_ordinal", OK, r.value, {}, NoReq, r.calls)

JsonDynamicFlatIterator_num_rows ==
    /\ Prepared("dynamic", 0)
    /\ \E r \in {num_rows_dynamic} : Returned("num_rows", OK, r.value, {}, NoReq, r.calls)

\* ------------------------------------------------------------- next-state
JsonFails == FailChoices({JsonIt})

FlatInit ==
    \E dcheck \in BOOLEAN : \E fail \in FailChoices(IterIds) :
        JsonFlatColumnIterator_init(fail, dcheck)
CallerPrepare == \E use \in DstUses : Caller_prepare_dst(use)
FlatNextBatch ==
    /\ Prepared("flat", 1)
    /\ \E n \in BatchSizes, dcheck \in BOOLEAN :
          \E repr \in ReprChoices, fail \in ReadFailChoices :
             JsonFlatColumnIterator_next_batch(n, fail, repr, dcheck)
FlatNextBatchRange ==
    /\ Prepared("flat", 1)
    /\ \E range \in RangeChoices, dcheck \in BOOLEAN :
          \E repr \in ReprChoices, fail \in ReadFailChoices :
             JsonFlatColumnIterator_next_batch_range(range, fail, repr, dcheck)
FlatFetchValuesByRowid ==
    /\ Prepared("flat", 1)
    /\ \E rowids \in SortedRowids, dcheck \in BOOLEAN, reached \in BOOLEAN :
          \E repr \in ReprChoices, fail \in ReadFailChoices :
             JsonFlatColumnIterator_fetch_values_by_rowid(rowids, fail, repr, dcheck, reached)
FlatSeekToFirst ==
    /\ Prepared("flat", 0)
    /\ \E fail \in FailChoices(IterIds) : JsonFlatColumnIterator_seek_to_first(fail)
FlatSeekToOrdinal ==
    /\ Prepared("flat", 0)
    /\ \E ord \in Rows : \E fail \in FailChoices(IterIds) :
          JsonFlatColumnIterator_seek_to_ordinal(ord, fail)
FlatZoneMap == \E zm \in ZoneMapArgs : JsonFlatColumnIterator_get_row_ranges_by_zone_map(zm)

DynamicInit == \E fail \in JsonFails : JsonDynamicFlatIterator_init(fail)
DynamicNextBatch ==
    /\ Prepared("dynamic", 1)
    /\ \E n \in BatchSizes, fail \in JsonFails : JsonDynamicFlatIterator_next_batch(n, fail)
DynamicNextBatchRange ==
    /\ Prepared("dynamic", 1)
    /\ \E range \in RangeChoices, fail \in JsonFails :
          JsonDynamicFlatIterator_next_batch_range(range, fail)
DynamicFetchValuesByRowid ==
    /\ Prepared("dynamic", 1)
    /\ \E rowids \in SortedRowids, fail \in JsonFails :
          JsonDynamicFlatIterator_fetch_values_by_rowid(rowids, fail)
DynamicSeekToFirst ==
    /\ Prepared("dynamic", 0)
    /\ \E fail \in JsonFails : JsonDynamicFlatIterator_seek_to_first(fail)
DynamicSeekToOrdinal ==
    /\ Prepared("dynamic", 0)
    /\ \E ord \in Rows, fail \in JsonFails : JsonDynamicFlatIterator_seek_to_ordinal(ord, fail)
DynamicZoneMap ==
    /\ Prepared("dynamic", 0)
    /\ \E zm \in ZoneMapArgs, fail \in JsonFails :
          JsonDynamicFlatIterator_get_row_ranges_by_zone_map(zm, fail)

Next ==
    \/ CallerPrepare
    \/ FlatInit
    \/ FlatNextBatch
    \/ FlatNextBatchRange
    \/ FlatFetchValuesByRowid
    \/ FlatSeekToFirst
    \/ FlatSeekToOrdinal
    \/ FlatZoneMap
    \/ JsonFlatColumnIterator_get_current_ordinal
    \/ JsonFlatColumnIterator_num_rows
    \/ DynamicInit
    \/ DynamicNextBatch
    \/ DynamicNextBatchRange
    \/ DynamicFetchValuesByRowid
    \/ DynamicSeekToFirst
    \/ DynamicSeekToOrdinal
    \/ DynamicZoneMap
    \/ JsonDynamicFlatIterator_get_current_ordinal
    \/ JsonDynamicFlatIterator_num_rows

Spec == Init /\ [][Next]_vars


\* ---------------------------------------- several readers, one stats object
\* A segment scan opens one reader after another against the same
\* OlapReaderStatistics; the calls are serialized. The reader that a factory
\* returns replaces the previous one as the reader under study.
Caller_open_flat(has_null, c, p) ==
    /\ opened < MaxReaders
    /\ life # "fatal"
    /\ ret.op # "prepare"
    /\ kind' = "flat"
    /\ null_iter' = IF has_null THEN NewIter ELSE NoIter
    /\ flat_iters' = [i \in 1 .. Len(c.paths) |-> NewIter]
    /\ json_iter' = NoIter
    /\ flat_paths' = c.paths
    /\ target_types' = c.target
    /\ source_types' = c.source
    /\ path' = p
    /\ cast_exprs' = <<>>
    /\ source_columns' = <<>>
    /\ flattener' = nullptr
    /\ life' = "constructed"
    /\ dst' = EmptyDst(FALSE)
    /\ ret' = [NoRet EXCEPT !.after_seek = -1]
    /\ calls' = <<>>
    /\ seeked' = -1
    /\ opened' = opened + 1
    /\ UNCHANGED <<stats_vars, init_log>>

Caller_open_dynamic(c, p) ==
    /\ opened < MaxReaders
    /\ life # "fatal"
    /\ ret.op # "prepare"
    /\ kind' = "dynamic"
    /\ null_iter' = NoIter
    /\ flat_iters' = <<>>
    /\ json_iter' = NewIter
    /\ flat_paths' = c.paths
    /\ target_types' = c.target
    /\ source_types' = <<>>
    /\ path' = p
    /\ cast_exprs' = <<>>
    /\ source_columns' = <<>>
    /\ flattener' = nullptr
    /\ life' = "constructed"
    /\ dst' = EmptyDst(FALSE)
    /\ ret' = [NoRet EXCEPT !.after_seek = -1]
    /\ calls' = <<>>
    /\ seeked' = -1
    /\ opened' = opened + 1
    /\ UNCHANGED <<stats_vars, init_log>>

OpenFlat == \E has_null \in BOOLEAN, c \in FieldConfigs, p \in Paths : Caller_open_flat(has_null, c, p)
OpenDynamic == \E c \in FieldConfigs, p \in Paths : Caller_open_dynamic(c, p)

\* the operations of one reader, each with one request, so that the runs of
\* several readers stay small
StatsFlatRead ==
    /\ Prepared("flat", 1)
    /\ \E repr \in ReprChoices :
          \/ JsonFlatColumnIterator_next_batch(NumRows, NoFail, repr, TRUE)
          \/ JsonFlatColumnIterator_next_batch_range(<<0>>, NoFail, repr, TRUE)
          \/ JsonFlatColumnIterator_fetch_values_by_rowid(<<0>>, NoFail, repr, TRUE, FALSE)
StatsFlatSeek ==
    /\ Prepared("flat", 0)
    /\ \/ JsonFlatColumnIterator_seek_to_first(NoFail)
       \/ JsonFlatColumnIterator_seek_to_ordinal(1, NoFail)
StatsFlatAccessor ==
    \/ JsonFlatColumnIterator_get_row_ranges_by_zone_map(NoZm)
    \/ JsonFlatColumnIterator_get_current_ordinal
    \/ JsonFlatColumnIterator_num_rows
StatsDynamicRead ==
    /\ Prepared("dynamic", 1)
    /\ \/ JsonDynamicFlatIterator_next_batch(NumRows, NoFail)
       \/ JsonDynamicFlatIterator_next_batch_range(<<0>>, NoFail)
       \/ JsonDynamicFlatIterator_fetch_values_by_rowid(<<0>>, NoFail)
StatsDynamicSeek ==
    /\ Prepared("dynamic", 0)
    /\ \/ JsonDynamicFlatIterator_seek_to_first(NoFail)
       \/ JsonDynamicFlatIterator_seek_to_ordinal(1, NoFail)
StatsDynamicAccessor ==
    \/ Prepared("dynamic", 0) /\ JsonDynamicFlatIterator_get_row_ranges_by_zone_map(NoZm, NoFail)
    \/ JsonDynamicFlatIterator_get_current_ordinal
    \/ JsonDynamicFlatIterator_num_rows

NextStats ==
    \/ OpenFlat
    \/ OpenDynamic
    \/ FlatInit
    \/ DynamicInit
    \/ CallerPrepare
    \/ StatsFlatRead
    \/ StatsFlatSeek
    \/ StatsFlatAccessor
    \/ StatsDynamicRead
    \/ StatsDynamicSeek
    \/ StatsDynamicAccessor

SpecStats == Init /\ [][NextStats]_vars

\* ------------------------------------- readers built from ill-matched lists
\* create_json_flat_iterator hands its lists to the constructor as they come:
\* nothing compares the number of sub-iterators, paths, target types and source
\* types. These are argument lists on which init and the batch reads stay
\* within the bounds of every vector they index (iters is the number of
\* flat-field sub-iterators): one well-matched, two with fewer sub-iterators
\* than paths and types, one with more source types than target types.
ContractConfigs ==
    { [iters |-> 2, paths |-> <<"$.a", "$.b">>, target |-> <<"INT", "STRING">>,
       source |-> <<"INT", "INT">>],
      [iters |-> 1, paths |-> <<"$.a", "$.b">>, target |-> <<"INT", "STRING">>,
       source |-> <<"INT", "INT">>],
      [iters |-> 1, paths |-> <<"$.b", "$.a">>, target |-> <<"STRING", "INT">>,
       source |-> <<"INT", "INT">>],
      [iters |-> 1, paths |-> <<"$.b">>, target |-> <<"STRING">>,
       source |-> <<"INT", "STRING">>] }

InitContract ==
    /\ \E has_null \in BOOLEAN, c \in ContractConfigs :
          /\ kind = "flat"
          /\ null_iter = IF has_null THEN NewIter ELSE NoIter
          /\ flat_iters = [i \in 1 .. c.iters |-> NewIter]
          /\ json_iter = NoIter
          /\ flat_paths = c.paths
          /\ target_types = c.target
          /\ source_types = c.source
          /\ path = "c1"
          /\ cast_exprs = <<>>
          /\ source_columns = <<>>
          /\ flattener = nullptr
    /\ CallerFresh
    /\ flat_json_hits = EmptyHits
    /\ dynamic_json_hits = EmptyHits
    /\ opened = 1
    /\ init_log = NoLog

NextContract ==
    \/ CallerPrepare
    \/ FlatInit
    \/ FlatNextBatch
    \/ FlatNextBatchRange
    \/ FlatFetchValuesByRowid
    \/ FlatSeekToFirst
    \/ FlatSeekToOrdinal
    \/ FlatZoneMap
    \/ JsonFlatColumnIterator_get_current_ordinal
    \/ JsonFlatColumnIterator_num_rows

SpecContract == InitContract /\ [][NextContract]_vars

\* =================================================================== claims
ReadOps == {"next_batch", "next_batch_range", "fetch_values_by_rowid"}
SeekOps == {"seek_to_first", "seek_to_ordinal"}
EvaluateOps == {"evaluate_full", "evaluate_constant", "evaluate_only_null", "evaluate_failed"}

FlatRead == kind = "flat" /\ ret.op \in ReadOps
FlatReadOk == FlatRead /\ ret.status.ok
\* the rows the last call read from sub-iterator it (<<>> when it read none)
ReadCalls(it) == {k \in 1 .. Len(calls) : calls[k].it = it /\ calls[k].op \in ReadOps}
RowsReadBy(it) ==
    IF ReadCalls(it) = {} THEN <<>> ELSE calls[CHOOSE k \in ReadCalls(it) : TRUE].rows
LastRows(col, m) == SubSeq(col, Len(col) - m + 1, Len(col))

\* C1: after a successful Precomputed-Flat batch read into an initially empty
\* destination, all flat fields hold the same number of rows, which is the row
\* count of the document sub-column, and, with a null sub-iterator, also the
\* number of rows the null sub-iterator appended and the count reported back.
C1_RowCountsAgree ==
    (FlatReadOk /\ ret.req.fresh) =>
        /\ Len(dst.flat_columns) = Len(flat_iters)
        /\ \A i \in 1 .. Len(dst.flat_columns) :
              /\ Len(dst.flat_columns[i].rows) = JsonSize(dst.flat_columns)
              /\ Len(dst.flat_columns[i].rows) = Len(RowsReadBy(i))
        /\ null_iter.present =>
              /\ Len(dst.null_column) = JsonSize(dst.flat_columns)
              /\ Len(RowsReadBy(NullIt)) = JsonSize(dst.flat_columns)
              /\ ret.n = JsonSize(dst.flat_columns)

\* a next_batch that the end of the column cut short, with a null sub-iterator
\* and a cast field whose result was folded into a constant
C1_Witness ==
    /\ FlatReadOk /\ ret.req.fresh
    /\ ret.op = "next_batch" /\ ret.req.n = 3 /\ ret.n = 2
    /\ null_iter.present
    /\ \E k \in 1 .. Len(calls) : calls[k].op \in {"evaluate_constant", "evaluate_only_null"}

\* C2 (as claimed): every Precomputed-Flat batch read handed a destination whose
\* null-wrapping does not match the presence of the null sub-iterator ends in the
\* fatal CHECK before any sub-iterator is called.
C2_MismatchFaultsBeforeAnyRead ==
    (FlatRead /\ null_iter.present # dst.nullable) =>
        (ret.status.code = "CHECK" /\ calls = <<>>)

\* C3: the Precomputed-Flat get_row_ranges_by_zone_map succeeds with exactly the
\* full range [0, num_rows) whatever the predicates, the delete predicate, the
\* relation and the reader state, calls no sub-iterator and moves none.
C3_Result ==
    (kind = "flat" /\ ret.op = "get_row_ranges_by_zone_map") =>
        /\ ret.status.ok
        /\ ret.row_ranges = 0 .. (NumRows - 1)
        /\ ret.req.zm.given \subseteq ret.row_ranges
        /\ calls = <<>>
C3_Frame == FlatZoneMap => UNCHANGED <<null_iter, flat_iters, life>>
C3_FullRange == [](C3_Result) /\ [][C3_Frame]_vars

\* predicates that would prune, on a reader that has read rows already
C3_Witness ==
    /\ kind = "flat" /\ ret.op = "get_row_ranges_by_zone_map"
    /\ ret.req.zm.preds # {} /\ ret.req.zm.rel = "AND" /\ ret.req.zm.del # {}
    /\ flat_iters[1].ord > 0

\* C4: Precomputed-Flat init initializes the null sub-iterator first and then
\* the flat-field sub-iterators in index order; when sub-iterator j fails it
\* returns j's failure unchanged, no later sub-iterator is initialized, the
\* precomputed-path hit counter is not incremented and no cast-plan entry is built.
InitOrder == (IF null_iter.present THEN <<NullIt>> ELSE <<>>) \o [i \in 1 .. Len(flat_iters) |-> i]
IterOf(it) == IF it = NullIt THEN null_iter ELSE flat_iters[it]
C4_Result ==
    (kind = "flat" /\ ret.op = "init") =>
        /\ Len(calls) <= Len(InitOrder)
        /\ \A k \in 1 .. Len(calls) : calls[k] = Call(InitOrder[k], "init", <<>>)
        /\ ret.status.ok =>
              /\ Len(calls) = Len(InitOrder)
              /\ \A k \in 1 .. Len(InitOrder) : IterOf(InitOrder[k]).inited
        /\ ~ret.status.ok =>
              /\ ret.status = Error(IterError, calls[Len(calls)].it)
              /\ \A k \in 1 .. Len(InitOrder) :
                    IterOf(InitOrder[k]).inited <=> k < Len(calls)
              /\ cast_exprs = <<>>
              /\ source_columns = <<>>
C4_Frame ==
    (FlatInit /\ ~ret'.status.ok) =>
        (flat_json_hits' = flat_json_hits /\ cast_exprs' = cast_exprs)
C4_InitOrderAndFailure == [](C4_Result) /\ [][C4_Frame]_vars

\* the first flat-field sub-iterator fails after the null sub-iterator succeeded
C4_Witness ==
    /\ kind = "flat" /\ ret.op = "init" /\ ~ret.status.ok
    /\ null_iter.present /\ null_iter.inited
    /\ ret.status.from = 1 /\ Len(flat_iters) = 2 /\ ~flat_iters[2].inited

\* C5: Precomputed-Flat seek_to_first / seek_to_ordinal(ord) seek the null
\* sub-iterator and then each flat-field sub-iterator in index order; on
\* success all are at ord (0 for seek_to_first); when j fails the call returns
\* j's failure, those before j are at ord and those after j are where they were.
C5_Result ==
    (kind = "flat" /\ ret.op \in SeekOps) =>
        /\ ret.op = "seek_to_first" => ret.req.ord = 0
        /\ Len(calls) <= Len(InitOrder)
        /\ \A k \in 1 .. Len(calls) : calls[k] = Call(InitOrder[k], ret.op, <<ret.req.ord>>)
        /\ ret.status.ok =>
              /\ Len(calls) = Len(InitOrder)
              /\ \A k \in 1 .. Len(InitOrder) : IterOf(InitOrder[k]).ord = ret.req.ord
        /\ ~ret.status.ok =>
              /\ ret.status = Error(IterError, calls[Len(calls)].it)
              /\ \A k \in 1 .. (Len(calls) - 1) : IterOf(InitOrder[k]).ord = ret.req.ord
C5_Frame ==
    ((FlatSeekToFirst \/ FlatSeekToOrdinal) /\ ~ret'.status.ok) =>
        /\ \A i \in 1 .. Len(flat_iters) : i >= ret'.status.from => flat_iters'[i] = flat_iters[i]
        /\ ret'.status.from = NullIt => null_iter' = null_iter
C5_SeekOrderAndFailure == [](C5_Result) /\ [][C5_Frame]_vars

\* a failed seek that left the sub-iterators at different ordinals
C5_Witness ==
    /\ kind = "flat" /\ ret.op = "seek_to_ordinal" /\ ~ret.status.ok
    /\ Len(flat_iters) = 2 /\ ret.status.from = 2
    /\ null_iter.present /\ null_iter.ord = ret.req.ord /\ flat_iters[1].ord = ret.req.ord
    /\ flat_iters[2].ord # ret.req.ord

\* C6: for both readers, a successful batch read into a fresh empty destination
\* that directly follows a successful seek_to_ordinal(k) produces contents,
\* count and final positions that depend only on k, the request and the
\* destination's shape, not on what came before the seek: the outcome is the
\* one written down here from the stored data, so any two such runs agree.
SeekedRows(k, req) ==
    IF req.mode = "next_n"
    THEN [j \in 1 .. Min(req.n, NumRows - k) |-> k + j - 1]
    ELSE req.rows
SeekedOrd(k, req) ==
    IF req.mode = "next_n" THEN k + Min(req.n, NumRows - k) ELSE req.rows[Len(req.rows)] + 1
StoredFlatValue(i, r) ==
    IF kind = "flat"
    THEN CastValue(source_types[i], target_types[i], PhysValue(flat_paths[i], source_types[i], r))
    ELSE IF NullFlag(r) = 1 THEN Null
    ELSE CastValue("INT", target_types[i], PhysValue(flat_paths[i], "INT", r))
ReadsNulls == IF kind = "flat" THEN null_iter.present ELSE dst.nullable
C6_Outcome(k, req) ==
    LET rows == SeekedRows(k, req)
        flags == [j \in 1 .. Len(rows) |-> NullFlag(rows[j])]
    IN  /\ Len(dst.flat_columns) = Len(flat_paths)
        /\ \A i \in 1 .. Len(flat_paths) :
              dst.flat_columns[i].rows = [j \in 1 .. Len(rows) |-> StoredFlatValue(i, rows[j])]
        /\ dst.null_column = IF ReadsNulls THEN flags ELSE <<>>
        /\ dst.has_null = (ReadsNulls /\ \E j \in 1 .. Len(rows) : flags[j] = 1)
        /\ ret.n = Len(rows)
        /\ \A i \in 1 .. Len(flat_iters) : flat_iters[i].ord = SeekedOrd(k, req)
        /\ null_iter.present => null_iter.ord = SeekedOrd(k, req)
        /\ json_iter.present => json_iter.ord = SeekedOrd(k, req)
C6_SeekThenReadRepeatable ==
    (ret.op \in ReadOps /\ ret.status.ok /\ ret.req.fresh /\ ret.after_seek >= 0) =>
        C6_Outcome(ret.after_seek, ret.req)

\* a seek back to ordinal 1 after the column was read to its end, then a
\* next_batch that the end of the column cuts short
C6_Witness ==
    /\ ret.op = "next_batch" /\ ret.status.ok /\ ret.req.fresh
    /\ ret.after_seek = 1 /\ ret.req.n = 3 /\ ret.n = 2
    /\ kind = "flat" /\ null_iter.present

\* C7: the Runtime-Flat seek_to_first, seek_to_ordinal, get_current_ordinal,
\* num_rows and get_row_ranges_by_zone_map make exactly one call, the same call
\* with the same arguments on the raw-document sub-iterator, return what it
\* returns, and change nothing else of the reader.
PassThroughOps == SeekOps \cup {"get_current_ordinal", "num_rows", "get_row_ranges_by_zone_map"}
C7_Result ==
    (kind = "dynamic" /\ ret.op \in PassThroughOps) =>
        /\ Len(calls) = 1
        /\ calls[1].it = JsonIt
        /\ calls[1].op = ret.op
        /\ ret.op \in SeekOps =>
              /\ calls[1].rows = <<ret.req.ord>>
              /\ ret.status.ok => json_iter.ord = ret.req.ord
              /\ ~ret.status.ok => ret.status = Error(IterError, JsonIt)
        /\ ret.op = "get_current_ordinal" => (ret.status.ok /\ ret.value = json_iter.ord)
        /\ ret.op = "num_rows" => (ret.status.ok /\ ret.value = NumRows)
        /\ ret.op = "get_row_ranges_by_zone_map" =>
              /\ ret.status.ok => ret.row_ranges = SubZoneMap(ret.req.zm)
              /\ ~ret.status.ok => ret.status = Error(IterError, JsonIt)
DynamicPassThrough ==
    \/ DynamicSeekToFirst
    \/ DynamicSeekToOrdinal
    \/ DynamicZoneMap
    \/ JsonDynamicFlatIterator_get_current_ordinal
    \/ JsonDynamicFlatIterator_num_rows
C7_Frame ==
    DynamicPassThrough =>
        /\ UNCHANGED <<config_vars, flattener, stats_vars, dst, null_iter, flat_iters>>
        /\ (ret'.op \notin SeekOps \/ ~ret'.status.ok) => json_iter' = json_iter
C7_PassThrough == [](C7_Result) /\ [][C7_Frame]_vars

\* pruning that removed rows, answered after the reader had moved
C7_Witness ==
    /\ kind = "dynamic" /\ ret.op = "get_row_ranges_by_zone_map" /\ ret.status.ok
    /\ ret.row_ranges = {1}
    /\ json_iter.ord > 0

\* C8: a successful init of a Precomputed-Flat Reader adds exactly 1 to
\* flat_json_hits[path] (creating it at 1), a successful init of a Runtime-Flat
\* Reader does the same to dynamic_json_hits[path]; neither changes the other
\* counter map nor another path's entry; no batch read, seek or accessor changes
\* either map; and after N successful inits on a path, in a run where no
\* init on that path failed, the counter of that path reads N.
OwnHits(k) == IF k = "flat" THEN flat_json_hits ELSE dynamic_json_hits
C8_InitStep ==
    ((FlatInit \/ DynamicInit) /\ ret'.status.ok) =>
        /\ kind = "flat" =>
              /\ HitCount(flat_json_hits', path) = HitCount(flat_json_hits, path) + 1
              /\ \A q \in Paths \ {path} : HitCount(flat_json_hits', q) = HitCount(flat_json_hits, q)
              /\ DOMAIN flat_json_hits' = DOMAIN flat_json_hits \cup {path}
              /\ dynamic_json_hits' = dynamic_json_hits
        /\ kind = "dynamic" =>
              /\ HitCount(dynamic_json_hits', path) = HitCount(dynamic_json_hits, path) + 1
              /\ \A q \in Paths \ {path} : HitCount(dynamic_json_hits', q) = HitCount(dynamic_json_hits, q)
              /\ DOMAIN dynamic_json_hits' = DOMAIN dynamic_json_hits \cup {path}
              /\ flat_json_hits' = flat_json_hits
C8_OtherSteps ==
    (NextStats /\ ~(FlatInit \/ DynamicInit)) => UNCHANGED stats_vars
C8_Count ==
    \A k \in Kinds, q \in Paths :
        ~init_log[<<k, q>>].failed => HitCount(OwnHits(k), q) = init_log[<<k, q>>].ok
C8_HitCounters == [](C8_Count) /\ [][C8_InitStep]_vars /\ [][C8_OtherSteps]_vars

\* the second successful Precomputed-Flat init on the same path
C8_Witness ==
    /\ HitCount(flat_json_hits, "c1") = 2
    /\ init_log[<<"flat", "c1">>].ok = 2
    /\ ret.op = "init" /\ ret.status.ok /\ kind = "flat"

\* C9: after a successful Precomputed-Flat init the cast plan has one entry per
\* flat field, entry i empty (no cast expression, no scratch column) exactly
\* when target_types[i] = source_types[i]; a batch read fills a field with an
\* empty entry with exactly the rows its sub-iterator delivers and never
\* evaluates a cast for it.
C9_CastPlan ==
    (kind = "flat" /\ life = "initialized") =>
        /\ Len(cast_exprs) = Len(flat_iters)
        /\ Len(source_columns) = Len(flat_iters)
        /\ \A i \in 1 .. Len(flat_iters) :
              /\ (cast_exprs[i] = nullptr) <=> (target_types[i] = source_types[i])
              /\ (source_columns[i] = nullptr) <=> (target_types[i] = source_types[i])
C9_DirectRead ==
    (FlatRead /\ life # "fatal") =>
        \A k \in 1 .. Len(calls) :
            LET i == calls[k].it
            IN  /\ calls[k].op \in EvaluateOps => target_types[i] # source_types[i]
                /\ (calls[k].op \in ReadOps /\ i # NullIt /\ target_types[i] = source_types[i]) =>
                      /\ Len(dst.flat_columns[i].rows) >= Len(calls[k].rows)
                      /\ LastRows(dst.flat_columns[i].rows, Len(calls[k].rows)) =
                            [j \in 1 .. Len(calls[k].rows) |->
                                PhysValue(flat_paths[i], source_types[i], calls[k].rows[j])]
C9_NoCastWhenTypesAgree == C9_CastPlan /\ C9_DirectRead

\* a read of two rows in which one field was read directly and the other cast
C9_Witness ==
    /\ FlatReadOk
    /\ Len(flat_iters) = 2
    /\ target_types[1] = source_types[1] /\ target_types[2] # source_types[2]
    /\ Len(RowsReadBy(1)) = 2
    /\ \E k \in 1 .. Len(calls) : calls[k].op = "evaluate_full" /\ calls[k].it = 2

\* C10: with fields ("$.a", INT stored as INT) and ("$.b", STRING stored as
\* INT), reading the 3 rows whose stored b values are 1, 2, null yields
\* b = "1", "2", null and a as stored; in general a cast field whose cast
\* result is a full column receives the cast of each source row, in row order,
\* nulls staying where they were.
C10_Scenario ==
    /\ FlatReadOk /\ ret.req.fresh
    /\ flat_paths = <<"$.a", "$.b">>
    /\ target_types = <<"INT", "STRING">>
    /\ source_types = <<"INT", "INT">>
    /\ RowsReadBy(2) = <<0, 1, 2>>
C10_CastRows ==
    /\ C10_Scenario =>
          /\ dst.flat_columns[2].rows = <<StrV(<<49>>), StrV(<<50>>), Null>>
          /\ dst.flat_columns[1].rows = <<IntV(10), IntV(20), IntV(30)>>
    /\ FlatReadOk =>
          \A k \in 1 .. Len(calls) :
              calls[k].op = "evaluate_full" =>
                  LET i == calls[k].it
                      rows == RowsReadBy(i)
                  IN  /\ Len(dst.flat_columns[i].rows) >= Len(rows)
                      /\ LastRows(dst.flat_columns[i].rows, Len(rows)) =
                            [j \in 1 .. Len(rows) |->
                                CastValue(source_types[i], target_types[i],
                                          PhysValue(flat_paths[i], source_types[i], rows[j]))]
C10_Witness == C10_Scenario /\ ret.op = "next_batch"

\* C11: in every state of a Precomputed-Flat Reader reached from a successful
\* init by successful seeks and successful batch reads, the null sub-iterator
\* and all flat-field sub-iterators are at the same ordinal, so that what
\* get_current_ordinal() and num_rows() take from flat-field sub-iterator 0 is
\* what every other owned sub-iterator reports.
OwnedIters == (IF null_iter.present THEN {null_iter} ELSE {}) \cup
              {flat_iters[i] : i \in 1 .. Len(flat_iters)}
C11_Synchronized ==
    (kind = "flat" /\ life = "initialized") =>
        /\ \A a, b \in OwnedIters : a.ord = b.ord
        /\ ret.op = "get_current_ordinal" =>
              /\ calls = <<Call(1, "get_current_ordinal", <<>>)>>
              /\ \A a \in OwnedIters : a.ord = ret.value
        /\ ret.op = "num_rows" =>
              /\ calls = <<Call(1, "num_rows", <<>>)>>
              /\ ret.value = NumRows

\* get_current_ordinal answers 2 on a reader with a null sub-iterator that has
\* been read and moved
C11_Witness ==
    /\ kind = "flat" /\ life = "initialized"
    /\ ret.op = "get_current_ordinal" /\ ret.value = 2
    /\ null_iter.present
    /\ Len(dst.null_column) > 0

\* C12: when, in a Precomputed-Flat batch read, the sub-iterator read or the
\* cast evaluation of flat field i fails, the read returns that failure
\* unchanged; flat fields before i and the null sub-column keep the rows this
\* batch wrote to them; field i receives no cast result; and the sub-iterators
\* of the fields after i are neither read nor moved.
\* a step that is a batch read of a reader of kind k: the caller's prepare step
\* is followed by nothing else that returns from a batch read
BatchReadStep(k) == kind = k /\ ret.op = "prepare" /\ ret'.op \in ReadOps
OldRows(k) == IF Len(dst.flat_columns) = 0 THEN <<>> ELSE dst.flat_columns[k].rows
C12_Step ==
    (BatchReadStep("flat") /\ ret'.status.code \in {IterError, CastError} /\ ret'.status.from >= 1) =>
        LET i == ret'.status.from
            last == calls'[Len(calls')]
        IN  /\ life' = "failed"
            /\ last.it = i
            /\ ret'.status = Error(IF last.op = "evaluate_failed" THEN CastError ELSE IterError, i)
            /\ Len(dst'.flat_columns) = Len(flat_paths)
            /\ \A k \in 1 .. (i - 1) :
                  dst'.flat_columns[k].rows =
                        OldRows(k) \o [j \in 1 .. Len(RowsReadBy(k)') |->
                                          StoredFlatValue(k, RowsReadBy(k)'[j])]
            /\ null_iter.present =>
                  dst'.null_column =
                      dst.null_column \o [j \in 1 .. Len(RowsReadBy(NullIt)') |->
                                              NullFlag(RowsReadBy(NullIt)'[j])]
            /\ dst'.flat_columns[i].rows = OldRows(i)
            /\ \A k \in (i + 1) .. Len(flat_iters) :
                  /\ flat_iters'[k] = flat_iters[k]
                  /\ \A c \in 1 .. Len(calls') : calls'[c].it # k
                  /\ dst'.flat_columns[k].rows = OldRows(k)
C12_PartialWritesKept == [][C12_Step]_vars

\* the cast of field 2 fails after the null sub-column and field 1 were written
C12_Witness ==
    /\ FlatRead /\ life = "failed"
    /\ ret.status = Error(CastError, 2)
    /\ null_iter.present /\ Len(dst.null_column) = 2
    /\ Len(dst.flat_columns[1].rows) = 2 /\ Len(dst.flat_columns[2].rows) = 0

\* C13 (as claimed): a Precomputed-Flat Reader whose lists of flat-field
\* sub-iterators, paths, target types and source types differ in length is
\* stopped at construction or at init, so that no batch read runs on a reader
\* for which target_types.size() == source_types.size() == flat_paths.size()
\* == number of sub-iterators is false.
ListLengthsMatch ==
    /\ Len(target_types) = Len(source_types)
    /\ Len(source_types) = Len(flat_paths)
    /\ Len(flat_paths) = Len(flat_iters)
C13_NoReadOnIllMatchedLists == FlatRead => ListLengthsMatch

\* C14 (as claimed): Runtime-Flat init initializes the raw-document
\* sub-iterator first, then increments the runtime-path hit counter, then
\* constructs the flattening engine; so when the raw-document sub-iterator
\* fails to initialize, init returns that failure and has neither changed the
\* runtime-path hit counter nor constructed the flattening engine.
C14_Step ==
    (kind = "dynamic" /\ life = "constructed" /\ ret'.op = "init" /\ ~ret'.status.ok) =>
        /\ ret'.status = Error(IterError, JsonIt)
        /\ dynamic_json_hits' = dynamic_json_hits
        /\ flattener' = flattener
C14_FailedInitCountsNothing == [][C14_Step]_vars

\* C15: for a Precomputed-Flat cast field, an all-null cast result makes the
\* flat field gain exactly batch_size nulls and a constant cast result makes
\* it gain that value exactly batch_size times, batch_size being the number of
\* rows this batch read into the scratch column (which starts empty in every
\* batch, whatever was read before); a result that is constant and all-null
\* goes the all-null way.
FoldedValue(i, rows) ==
    CastValue(source_types[i], target_types[i], PhysValue(flat_paths[i], source_types[i], rows[1]))
C15_Step ==
    BatchReadStep("flat") =>
        \A i \in 1 .. Len(flat_iters) : \A c \in 1 .. Len(calls') :
            (calls'[c].it = i /\ calls'[c].op \in {"evaluate_only_null", "evaluate_constant"}) =>
                LET rows == RowsReadBy(i)'
                    batch_size == Len(rows)
                    v == FoldedValue(i, rows)
                IN  /\ batch_size > 0
                    /\ HasCast(i)
                    /\ (calls'[c].op = "evaluate_only_null") <=> (v = Null)
                    /\ dst'.flat_columns[i].rows = OldRows(i) \o [j \in 1 .. batch_size |-> v]
C15_FoldedCastResults == [][C15_Step]_vars

\* a second batch into the same column: a constant result over two rows lands
\* behind the rows of the first batch
C15_Witness ==
    /\ FlatRead /\ ret.status.ok /\ ~ret.req.fresh
    /\ \E c \in 1 .. Len(calls) :
          /\ calls[c].op = "evaluate_constant"
          /\ Len(RowsReadBy(calls[c].it)) = 2
          /\ Len(dst.flat_columns[calls[c].it].rows) = 3

\* an all-null result over two rows, read after the reader had moved
C15_WitnessOnlyNull ==
    /\ FlatRead /\ ret.status.ok
    /\ \E c \in 1 .. Len(calls) :
          /\ calls[c].op = "evaluate_only_null"
          /\ Len(RowsReadBy(calls[c].it)) = 2

\* C16: a Precomputed-Flat batch read calls the owned sub-iterators in the
\* order null sub-iterator (if present), field 0, ..., field N-1, each once,
\* all with the read mode of the entry point and the same row selection (the
\* same range, the same row ids, or the count the previous sub-iterator left);
\* the has-null flag of the destination is refreshed from the null sub-column
\* after the null read and before any flat field is read; and when the null
\* read fails, no flat-field sub-iterator is read. (Reads that end in a fatal
\* fault are the subject of C2.)
IsReadCall(c) == c.op \in ReadOps
SubReads == SelectSeq(calls, IsReadCall)
C16_ReadOrder ==
    (FlatRead /\ life # "fatal") =>
        /\ Len(SubReads) >= 1
        /\ Len(SubReads) <= Len(InitOrder)
        /\ ret.status.ok => Len(SubReads) = Len(InitOrder)
        /\ \A k \in 1 .. Len(SubReads) :
              /\ SubReads[k].it = InitOrder[k]
              /\ SubReads[k].op = ret.op
              /\ (k < Len(SubReads) \/ ret.status.ok) =>
                    /\ ret.req.mode \in {"range", "rowid"} => SubReads[k].rows = ret.req.rows
                    /\ ret.req.mode = "next_n" =>
                          /\ Len(SubReads[k].rows) <= ret.req.n
                          /\ SubReads[k].rows = SubReads[1].rows
        /\ (~ret.status.ok /\ calls[Len(calls)].it = NullIt) =>
              /\ null_iter.present
              /\ calls = <<Call(NullIt, ret.op, <<>>)>>
              /\ ret.status = Error(IterError, NullIt)
        /\ (null_iter.present /\ dst.nullable /\ (ret.status.ok \/ calls[Len(calls)].it # NullIt)) =>
              dst.has_null = UpdateHasNull(dst.null_column)

\* a next_batch cut short by the end of the column: the flat fields are asked
\* for the count the null sub-iterator left; the null sub-column holds a null
C16_Witness ==
    /\ FlatReadOk /\ ret.op = "next_batch"
    /\ null_iter.present /\ Len(flat_iters) = 2
    /\ ret.req.n = 3 /\ Len(SubReads) = 3 /\ Len(SubReads[3].rows) = 2
    /\ dst.has_null

\* the flag is already refreshed when the first flat-field read fails
C16_WitnessFlagBeforeFields ==
    /\ FlatRead /\ life = "failed"
    /\ ret.status = Error(IterError, 1)
    /\ dst.has_null

\* C17: a Runtime-Flat batch read into a null-wrapped destination leaves the
\* destination's has-null flag at the OR of its value before the read and the
\* proxy's flag: it becomes true whenever the raw batch just read holds a null,
\* and over the reads into one destination it never goes back to false.
HoldsNull(rows) == \E j \in 1 .. Len(rows) : NullFlag(rows[j]) = 1
C17_Step ==
    /\ (BatchReadStep("dynamic") /\ ret'.status.ok /\ dst.nullable) =>
          dst'.has_null = (dst.has_null \/ HoldsNull(RowsReadBy(JsonIt)'))
    /\ (kind = "dynamic" /\ dst.nullable /\ dst.has_null /\ ~(ret'.op = "prepare" /\ ret'.req.fresh)) =>
          dst'.has_null
C17_HasNullIsOred == [][C17_Step]_vars

\* the second batch into a destination that already holds a null brings none
C17_Witness ==
    /\ kind = "dynamic" /\ ret.op \in ReadOps /\ ret.status.ok
    /\ ~ret.req.fresh /\ dst.nullable
    /\ ~HoldsNull(RowsReadBy(JsonIt))
    /\ dst.has_null

\* C18: when the raw-document sub-iterator fails in any of the three
\* Runtime-Flat batch reads, the read returns that failure unchanged, the
\* destination is exactly as before the call (null sub-column, has-null flag,
\* delete state, flat fields) and the flattening engine is not invoked.
C18_Step ==
    (BatchReadStep("dynamic") /\ ~ret'.status.ok) =>
        /\ ret'.status = Error(IterError, JsonIt)
        /\ dst' = dst
        /\ calls' = <<Call(JsonIt, ret'.op, <<>>)>>
        /\ \A c \in 1 .. Len(calls') : calls'[c].op # "flatten"
C18_FailedRawReadLeavesDst == [][C18_Step]_vars

\* the failed read was the second batch into a null-wrapped destination that
\* holds rows, a null and a partial delete state
C18_Witness ==
    /\ kind = "dynamic" /\ ret.op \in ReadOps /\ ~ret.status.ok
    /\ ~ret.req.fresh /\ dst.nullable
    /\ Len(dst.null_column) = 2 /\ dst.has_null
    /\ dst.delete_state = DEL_PARTIAL_SATISFIED
    /\ Len(dst.flat_columns) = 2 /\ Len(dst.flat_columns[1].rows) = 2

\* C19: after a successful Runtime-Flat batch read into an empty null-wrapped
\* destination, the null sub-column has one entry per row read from the
\* raw-document sub-iterator, each the null flag of the raw document read at
\* that position; the delete state of the destination is the proxy's; and the
\* flattening engine is invoked exactly once per batch read, with the
\* (flat_paths, target_types) descriptor list given at construction.
IsFlattenCall(c) == c.op = "flatten"
C19_NullColumnAndFlatten ==
    /\ (kind = "dynamic" /\ ret.op \in ReadOps /\ ret.status.ok) =>
          /\ Len(SelectSeq(calls, IsFlattenCall)) = 1
          /\ calls = <<Call(JsonIt, ret.op, RowsReadBy(JsonIt)),
                       Call(JsonIt, "flatten", RowsReadBy(JsonIt))>>
          /\ flattener = <<flat_paths, target_types>>
          /\ Len(dst.flat_columns) = Len(flat_paths)
    /\ (kind = "dynamic" /\ ret.op \in ReadOps /\ ret.status.ok /\ ret.req.fresh /\ dst.nullable) =>
          LET rows == RowsReadBy(JsonIt)
          IN  /\ ret.n = Len(rows)
              /\ Len(dst.null_column) = Len(rows)
              /\ \A j \in 1 .. Len(rows) :
                    dst.null_column[j] = (IF Doc(rows[j]).null THEN 1 ELSE 0)
              /\ dst.delete_state =
                    (IF \E j \in 1 .. Len(rows) : DeletedRow(rows[j])
                     THEN DEL_PARTIAL_SATISFIED ELSE DEL_NOT_SATISFIED)
              /\ \A i \in 1 .. Len(flat_paths) :
                    /\ dst.flat_columns[i].type = target_types[i]
                    /\ Len(dst.flat_columns[i].rows) = Len(rows)

\* two rows read by row id: a deleted row and a null document
C19_Witness ==
    /\ kind = "dynamic" /\ ret.op = "fetch_values_by_rowid" /\ ret.status.ok
    /\ ret.req.fresh /\ dst.nullable
    /\ RowsReadBy(JsonIt) = <<1, 2>>
    /\ dst.null_column = <<0, 1>>
    /\ dst.delete_state = DEL_PARTIAL_SATISFIED
====
